---- MODULE Spec2Model ----
(***************************************************************************)
(* The identity-verification wizard of                                     *)
(* front/src/components/IDVerification/index.jsx as a state machine.       *)
(*                                                                         *)
(* A JavaScript value that may be null is modelled as a sequence of length *)
(* at most one: Null is <<>> and a value v is <<v>>.  A string the code    *)
(* takes apart (a data URL, the extracted text) is a sequence of tokens,   *)
(* so that split/match/atob are computed and can fail.                     *)
(***************************************************************************)
EXTENDS Naturals, Sequences, FiniteSets

\* ------------------------------------------------------------------ bounds
\* selections of a file whose read has not completed yet
MaxPendingReads == 2
\* streams granted over one run, with the camera requests still pending
MaxStreams == 2
\* calls of processVerification that have not returned yet
MaxSubmissions == 2

\* ------------------------------------------------------------------ values
Null == <<>>

Val(x) == <<x>>

\* the files the user can pick; each has its own content
Files == {"fileA", "fileB"}

\* FileReader.readAsDataURL's result for a file that was read
DataUrlOf(file) ==
    <<"data", ":", "image/png", ";", "base64", ",", file>>

\* canvas.toDataURL('image/jpeg') of a canvas a frame was drawn into
FrameUrl == <<"data", ":", "image/jpeg", ";", "base64", ",", "frame">>

\* canvas.toDataURL of a 0 x 0 canvas: the string "data:,"
EmptyCanvasUrl == <<"data", ":", ",">>

WebcamError ==
    "Unable to access webcam. Please make sure you have granted permission."

VARIABLES
    step,           \* useState(1)
    frontID,        \* useState(null)
    backID,         \* useState(null)
    selfieImage,    \* useState(null)
    isProcessing,   \* useState(false)
    error,          \* useState(null)
    extractedData,  \* useState(null)
    videoRef,       \* videoRef.current: Null, or the mounted <video> with its srcObject
    streamRef,      \* streamRef.current: Null or the stream stored last
    streams,        \* the streams getUserMedia granted: TRUE while its track is live
    camPending,     \* getUserMedia promises not settled yet
    readers,        \* FileReaders whose onloadend has not fired, per side
    subs            \* the calls of processVerification: where each is, its locals

vars == <<step, frontID, backID, selfieImage, isProcessing, error, extractedData,
          videoRef, streamRef, streams, camPending, readers, subs>>

wizardVars == <<step, frontID, backID, selfieImage, isProcessing, error, extractedData>>

cameraVars == <<videoRef, streamRef, streams, camPending>>

Sides == {"front", "back"}

PendingReads == readers["front"] + readers["back"]

\* ------------------------------------------------------------------ upload
\* the side whose UploadBox is rendered at this step, if any
UploadSide(s) == IF s = 1 THEN Val("front") ELSE IF s = 2 THEN Val("back") ELSE Null

\* handleFileUpload(event, side): a file was picked in the rendered UploadBox
\* and a FileReader starts reading it (with no file picked the handler does
\* nothing).  Nothing reads the file before onloadend, so which file it is
\* is drawn there
HandleFileUpload(side) ==
    /\ UploadSide(step) = Val(side)
    /\ PendingReads < MaxPendingReads
    /\ readers' = [readers EXCEPT ![side] = @ + 1]
    /\ UNCHANGED <<wizardVars, cameraVars, subs>>

\* reader.onloadend with the two setters swapped
OnLoadEndEffect_Swapped(side, result) ==
    IF side = "front"
    THEN /\ backID' = result
         /\ step' = 2
         /\ UNCHANGED frontID
    ELSE /\ frontID' = result
         /\ step' = 3
         /\ UNCHANGED backID

\* what reader.onloadend does with reader.result
OnLoadEndEffect(side, result) ==
    IF side = "front"
    THEN /\ frontID' = result
         /\ step' = 2
         /\ UNCHANGED backID
    ELSE /\ backID' = result
         /\ step' = 3
         /\ UNCHANGED frontID

\* reader.onloadend fires for a read of `file`: the read succeeded (result is
\* the file's data URL) or ended in error or abort (result is null)
OnLoadEnd(side, file, ok) ==
    /\ readers[side] > 0
    /\ readers' = [readers EXCEPT ![side] = @ - 1]
    /\ OnLoadEndEffect(side, IF ok THEN Val(DataUrlOf(file)) ELSE Null)
    /\ UNCHANGED <<selfieImage, isProcessing, error, extractedData,
                   cameraVars, subs>>

\* ------------------------------------------------------------------ camera
\* AnimatePresence mounts step 3's WebcamStep, whose <video> takes videoRef
MountWebcamStep ==
    /\ step = 3
    /\ videoRef = Null
    /\ videoRef' = Val([srcObject |-> Null])
    /\ UNCHANGED <<wizardVars, streamRef, streams, camPending,
                   readers, subs>>

\* the exit animation of step 3 ends: the <video> unmounts, React nulls the ref
UnmountWebcamStep ==
    /\ step # 3
    /\ videoRef # Null
    /\ videoRef' = Null
    /\ UNCHANGED <<wizardVars, streamRef, streams, camPending,
                   readers, subs>>

\* startWebcam up to its await: getUserMedia is requested
StartWebcam ==
    /\ step = 3
    /\ videoRef # Null
    /\ Len(streams) + camPending < MaxStreams
    /\ camPending' = camPending + 1
    /\ UNCHANGED <<wizardVars, videoRef, streamRef, streams, readers, subs>>

\* getUserMedia resolves with a new live stream; startWebcam resumes in its try
GetUserMediaGrant ==
    /\ camPending > 0
    /\ camPending' = camPending - 1
    /\ streams' = Append(streams, TRUE)
    /\ IF videoRef = Null
       THEN \* videoRef.current.srcObject = stream throws a TypeError: caught
            /\ error' = Val(WebcamError)
            /\ UNCHANGED <<videoRef, streamRef>>
       ELSE /\ videoRef' = Val([srcObject |-> Val(Len(streams) + 1)])
            /\ streamRef' = Val(Len(streams) + 1)
            /\ UNCHANGED error
    /\ UNCHANGED <<step, frontID, backID, selfieImage, isProcessing, extractedData,
                   readers, subs>>

\* getUserMedia rejects (permission denied, no device): the catch of startWebcam
GetUserMediaDeny ==
    /\ camPending > 0
    /\ camPending' = camPending - 1
    /\ error' = Val(WebcamError)
    /\ UNCHANGED <<step, frontID, backID, selfieImage, isProcessing, extractedData,
                   videoRef, streamRef, streams, readers, subs>>

\* stopWebcam without its `if (streamRef.current)`: null.getTracks() throws
StopWebcam_NoGuard(ref, strs) ==
    IF ref # Null
    THEN [streams |-> [strs EXCEPT ![ref[1]] = FALSE], threw |-> FALSE]
    ELSE [streams |-> strs, threw |-> TRUE]

\* stopWebcam: stops every track of the stream streamRef holds, if it holds one
\* (track.stop() on an ended track does nothing); threw says whether it raised
StopWebcam(ref, strs) ==
    IF ref # Null
    THEN [streams |-> [strs EXCEPT ![ref[1]] = FALSE], threw |-> FALSE]
    ELSE [streams |-> strs, threw |-> FALSE]

\* what drawImage + toDataURL give for the <video>: a frame when its stream is
\* live; the empty 0 x 0 canvas when it has no srcObject (videoWidth is 0 and
\* drawImage draws nothing); either one when its stream has ended
CanvasResults(video) ==
    IF video.srcObject = Null THEN {EmptyCanvasUrl}
    ELSE IF streams[video.srcObject[1]] THEN {FrameUrl}
    ELSE {FrameUrl, EmptyCanvasUrl}

\* captureImage, from the Capture button of the mounted WebcamStep
CaptureImage ==
    /\ step = 3
    /\ videoRef # Null
    /\ \E image \in CanvasResults(videoRef[1]) : selfieImage' = Val(image)
    /\ LET stopped == StopWebcam(streamRef, streams)
       IN /\ streams' = stopped.streams
          /\ step' = IF stopped.threw THEN step ELSE 4
    /\ UNCHANGED <<frontID, backID, isProcessing, error, extractedData,
                   videoRef, streamRef, camPending, readers, subs>>

\* ------------------------------------------------------- convertBase64ToFile
\* String.prototype.split(sep) on a token sequence
RECURSIVE Split(_, _)
Split(s, sep) ==
    IF \A i \in 1..Len(s) : s[i] # sep THEN <<s>>
    ELSE LET i == CHOOSE k \in 1..Len(s) :
                      s[k] = sep /\ \A j \in 1..(k - 1) : s[j] # sep
         IN <<SubSeq(s, 1, i - 1)>> \o Split(SubSeq(s, i + 1, Len(s)), sep)

\* s.match(/:(.*?);/): Null when nothing matches, else group 1, the tokens
\* between the first ":" and the first ";" after it
MatchMime(s) ==
    LET colons == {i \in 1..Len(s) : s[i] = ":"}
    IN IF colons = {} THEN Null
       ELSE LET c == CHOOSE i \in colons : \A j \in colons : i <= j
                semis == {i \in (c + 1)..Len(s) : s[i] = ";"}
            IN IF semis = {} THEN Null
               ELSE LET e == CHOOSE i \in semis : \A j \in semis : i <= j
                    IN Val(SubSeq(s, c + 1, e - 1))

\* the base64 payloads of the model and the bytes atob gives for each
Base64Table ==
    [p \in {"fileA", "fileB", "frame"} |->
        IF p = "fileA" THEN "bytesA" ELSE IF p = "fileB" THEN "bytesB" ELSE "bytesFrame"]

\* atob: Null when it throws InvalidCharacterError, else the decoded bytes
Atob(payload) ==
    IF \A i \in 1..Len(payload) : payload[i] \in DOMAIN Base64Table
    THEN Val([i \in 1..Len(payload) |-> Base64Table[payload[i]]])
    ELSE Null

SplitOfNullMessage == "Cannot read properties of null (reading 'split')"

MatchIsNullMessage == "Cannot read properties of null (reading '1')"

AtobFailedMessage == "Failed to execute 'atob' on 'Window'"

Thrown(msg) == [ok |-> FALSE, file |-> Null, message |-> msg]

Returned(f) == [ok |-> TRUE, file |-> Val(f), message |-> ""]

\* convertBase64ToFile(base64String, filename): the File, or what it throws
convertBase64ToFile(base64String, filename) ==
    IF base64String = Null
    THEN Thrown(SplitOfNullMessage)
    ELSE LET arr == Split(base64String[1], ",")
             m == MatchMime(arr[1])
         IN IF m = Null
            THEN Thrown(MatchIsNullMessage)
            ELSE LET bstr == IF Len(arr) >= 2 THEN Atob(arr[2])
                             ELSE Null \* atob(undefined) throws
                 IN IF bstr = Null
                    THEN Thrown(AtobFailedMessage)
                    ELSE Returned([name |-> filename, type |-> m[1],
                                   bytes |-> bstr[1]])

\* ------------------------------------------------------ processExtractedText
\* the texts the extraction endpoint answers with, "\n" and ": " as tokens
Texts ==
    { <<"NAME", ": ", "JOHN DOE", "\n", "ID", ": ", "12345">>,
      <<"NAME", ": ", "JANE ROE">> }

\* the field a label of the text maps to
FieldOf(label) ==
    IF label = "NAME" THEN Val("name")
    ELSE IF label = "ID" THEN Val("idNumber")
    ELSE Null

\* processExtractedText(text): the StructuredRecord, a set of <<field, value>>
\* with one pair per line "LABEL: value" of a known label
processExtractedText(text) ==
    LET lines == Split(text, "\n")
    IN { <<FieldOf(lines[i][1])[1], lines[i][3]>> :
           i \in { k \in 1..Len(lines) :
                     /\ Len(lines[k]) = 3
                     /\ lines[k][2] = ": "
                     /\ FieldOf(lines[k][1]) # Null } }

\* ------------------------------------------------------- processVerification
CompareFaces == "http://localhost:5000/api/compare-faces"

ExtractText == "http://localhost:5000/api/extract-text"

\* err.message of what the try block of processVerification can throw
FetchFailedMessage == "Failed to fetch"

JsonFailedMessage == "Unexpected token < in JSON at position 0"

FaceFailedMessage == "Face verification failed. Please try again."

TextFailedMessage == "Failed to extract information from ID."

NotDefinedMessage == "processExtractedText is not defined"

\* HTTP statuses an endpoint answers with
Statuses == {200, 500}

\* bodies of /api/compare-faces: Null is a body that is not JSON
FaceBodies ==
    {Null} \cup {Val([success |-> s, match |-> m]) : s \in BOOLEAN, m \in BOOLEAN}

\* bodies of /api/extract-text: Null is a body that is not JSON
TextBodies ==
    {Null} \cup {Val([success |-> FALSE, extracted_text |-> <<>>])}
           \cup {Val([success |-> TRUE, extracted_text |-> t]) : t \in Texts}

\* a call that takes phase 1 as passed and starts at the extraction request
NewSub_ResumesAtPhase2(front) ==
    [pc |-> "awaitText", frontIDFile |-> front,
     faceResult |-> Val([success |-> TRUE, match |-> TRUE]),
     sent |-> <<ExtractText>>]

\* a call of processVerification suspended at its first fetch: its locals, and
\* the requests it has issued so far
NewSub(front) ==
    [pc |-> "awaitFace", frontIDFile |-> front, faceResult |-> Null,
     sent |-> <<CompareFaces>>]

\* no call: none was made yet ("idle"), or the last one has returned, through
\* its catch ("failed") or not ("done"), and its locals are gone
ReturnedSub(how) ==
    [pc |-> how, frontIDFile |-> Null, faceResult |-> Null, sent |-> <<>>]

IdleSub == ReturnedSub("idle")

Running(sub) == sub.pc \in {"awaitFace", "awaitText"}

\* the record a new call of processVerification takes
FreeSlot == CHOOSE i \in 1..MaxSubmissions :
                /\ ~Running(subs[i])
                /\ \A j \in 1..(i - 1) : Running(subs[j])

\* the catch without the finally block
CatchFinally_NoFinally(message) ==
    /\ error' = Val(message)
    /\ UNCHANGED isProcessing

\* catch (err) { setError(err.message) } finally { setIsProcessing(false) }
CatchFinally(message) ==
    /\ error' = Val(message)
    /\ isProcessing' = FALSE

\* the button without disabled={isProcessing}
CanSubmit_NotDisabled == step = 4

\* whether the "Verify Identity" button is rendered and enabled
CanSubmit == step = 4 /\ ~isProcessing

\* processVerification up to its first await (or to its end, if decoding throws)
ProcessVerification ==
    /\ CanSubmit
    /\ \E i \in 1..MaxSubmissions : ~Running(subs[i])
    /\ LET front == convertBase64ToFile(frontID, "front-id.jpg")
           selfie == convertBase64ToFile(selfieImage, "selfie.jpg")
       IN IF ~front.ok
          THEN /\ CatchFinally(front.message)
               /\ subs' = [subs EXCEPT ![FreeSlot] = ReturnedSub("failed")]
          ELSE IF ~selfie.ok
          THEN /\ CatchFinally(selfie.message)
               /\ subs' = [subs EXCEPT ![FreeSlot] = ReturnedSub("failed")]
          ELSE /\ isProcessing' = TRUE
               /\ error' = Null
               /\ subs' = [subs EXCEPT ![FreeSlot] = NewSub(front.file)]
    /\ UNCHANGED <<step, frontID, backID, selfieImage, extractedData,
                   cameraVars, readers>>

\* the catch path with setStep(5) moved out of the try block
Fail_AdvancesStep(i, message) ==
    /\ CatchFinally(message)
    /\ subs' = [subs EXCEPT ![i] = ReturnedSub("failed")]
    /\ step' = 5
    /\ UNCHANGED extractedData

\* a submission returns through catch and finally
Fail(i, message) ==
    /\ CatchFinally(message)
    /\ subs' = [subs EXCEPT ![i] = ReturnedSub("failed")]
    /\ UNCHANGED <<step, extractedData>>

\* a fetch of submission i rejects: the endpoint is unreachable
FetchRejects(i) ==
    /\ subs[i].pc \in {"awaitFace", "awaitText"}
    /\ Fail(i, FetchFailedMessage)
    /\ UNCHANGED <<frontID, backID, selfieImage, cameraVars, readers>>

\* the check of line 99 without its `|| !faceResult.match`
FaceAccepted_SuccessOnly(status, faceResult) ==
    faceResult.success

\* whether the submission goes on to phase 2: lines 99-101
FaceAccepted(status, faceResult) ==
    faceResult.success /\ faceResult.match

\* the fetch of /api/compare-faces resolves and faceResponse.json() settles (no
\* statement lies between the two awaits); on a match the extraction request
\* is issued
FaceResponse(i, status, body) ==
    /\ subs[i].pc = "awaitFace"
    /\ IF body = Null
       THEN Fail(i, JsonFailedMessage)
       ELSE IF ~FaceAccepted(status, body[1])
       THEN Fail(i, FaceFailedMessage)
       ELSE /\ subs' = [subs EXCEPT ![i].pc = "awaitText",
                                    ![i].faceResult = body,
                                    ![i].sent = Append(@, ExtractText)]
            /\ UNCHANGED <<step, isProcessing, error, extractedData>>
    /\ UNCHANGED <<frontID, backID, selfieImage, cameraVars, readers>>

\* whether the extraction counts as done: lines 115-117
TextAccepted(status, textResult) ==
    textResult.success

\* the fetch of /api/extract-text resolves and textResponse.json() settles; on
\* success the record is stored and step becomes 5.  processExtractedText is
\* neither defined nor imported in the module: the call of line 120 resolves
\* only if the page defines a global of that name (`resolves`), and throws a
\* ReferenceError otherwise
TextResponse(i, status, body, resolves) ==
    /\ subs[i].pc = "awaitText"
    /\ IF body = Null
       THEN Fail(i, JsonFailedMessage)
       ELSE IF ~TextAccepted(status, body[1])
       THEN Fail(i, TextFailedMessage)
       ELSE IF ~resolves
       THEN Fail(i, NotDefinedMessage)
       ELSE /\ extractedData' = Val(processExtractedText(body[1].extracted_text))
            /\ step' = 5
            /\ isProcessing' = FALSE
            /\ subs' = [subs EXCEPT ![i] = ReturnedSub("done")]
            /\ UNCHANGED error
    /\ UNCHANGED <<frontID, backID, selfieImage, cameraVars, readers>>

Init ==
    /\ step = 1
    /\ frontID = Null
    /\ backID = Null
    /\ selfieImage = Null
    /\ isProcessing = FALSE
    /\ error = Null
    /\ extractedData = Null
    /\ videoRef = Null
    /\ streamRef = Null
    /\ streams = <<>>
    /\ camPending = 0
    /\ readers = [side \in Sides |-> 0]
    /\ subs = [i \in 1..MaxSubmissions |-> IdleSub]

Next ==
    \/ \E side \in Sides : HandleFileUpload(side)
    \/ \E side \in Sides, file \in Files, ok \in BOOLEAN : OnLoadEnd(side, file, ok)
    \/ MountWebcamStep
    \/ UnmountWebcamStep
    \/ StartWebcam
    \/ GetUserMediaGrant
    \/ GetUserMediaDeny
    \/ CaptureImage
    \/ ProcessVerification
    \/ \E i \in 1..MaxSubmissions : FetchRejects(i)
    \/ \E i \in 1..MaxSubmissions, status \in Statuses, body \in FaceBodies :
          FaceResponse(i, status, body)
    \/ \E i \in 1..MaxSubmissions, status \in Statuses, body \in TextBodies,
          resolves \in BOOLEAN :
          TextResponse(i, status, body, resolves)

Spec == Init /\ [][Next]_vars

\* a pending fetch of some submission resolves or rejects
FetchSettles ==
    \E i \in 1..MaxSubmissions :
       \/ FetchRejects(i)
       \/ \E status \in Statuses, body \in FaceBodies : FaceResponse(i, status, body)
       \/ \E status \in Statuses, body \in TextBodies, resolves \in BOOLEAN :
             TextResponse(i, status, body, resolves)

\* the wizard with every fetch settling eventually
FairSpec == Spec /\ WF_vars(FetchSettles)

\* ------------------------------------------------------------------ claims
Range(f) == {f[x] : x \in DOMAIN f}

Slots == 1..MaxSubmissions

NoMatchBodies ==
    {b \in FaceBodies : b # Null /\ ~(b[1].success /\ b[1].match)}

\* submission i issues its request to /api/extract-text in this step
IssuesExtraction(i) ==
    /\ ExtractText \notin Range(subs[i].sent)
    /\ ExtractText \in Range(subs'[i].sent)

\* submission i returns through its catch in this step
SubFails(i) ==
    \/ Running(subs[i]) /\ subs'[i].pc = "failed"
    \/ ProcessVerification /\ ~isProcessing' /\ i = FreeSlot

\* the messages a failed submission can leave in error
FailureMessages ==
    {FetchFailedMessage, JsonFailedMessage, FaceFailedMessage, TextFailedMessage,
     NotDefinedMessage, SplitOfNullMessage, MatchIsNullMessage, AtobFailedMessage}

\* C1: every change of step increases it by exactly 1 (it never decreases and
\* never skips a stage), also when a file read completes late.
C1_StepAdvancesByOne ==
    [][step' # step => step' = step + 1]_vars

\* C2: a face-comparison response without success and match sets error and
\* issues no extraction request; a request to /api/extract-text is only issued
\* by a submission on its own face-comparison response with success = true and
\* match = true.
C2_ExtractionOnlyAfterMatch ==
    [][\A i \in Slots :
         subs'[i] # subs[i] =>
           /\ IssuesExtraction(i) =>
                /\ subs[i].pc = "awaitFace"
                /\ subs'[i].faceResult = Val([success |-> TRUE, match |-> TRUE])
           /\ \A status \in Statuses, body \in NoMatchBodies :
                FaceResponse(i, status, body) =>
                  /\ error' = Val(FaceFailedMessage)
                  /\ ~Running(subs'[i])
                  /\ ~IssuesExtraction(i)]_vars

\* a submission has failed on a face-comparison response that was no match
C2_Witness ==
    /\ error = Val(FaceFailedMessage)
    /\ \E i \in Slots : subs[i].pc = "failed"

\* C3: when a submission fails at any point, then as it completes isProcessing
\* is false, error is the failure's message, extractedData is unchanged and
\* step is still 4.
C3_FailureLeavesReview ==
    [][\A i \in Slots :
         SubFails(i) =>
           /\ ~isProcessing'
           /\ error' \in {Val(m) : m \in FailureMessages}
           /\ extractedData' = extractedData
           /\ step' = 4]_vars

\* C4: a submission that receives a match and then the extraction response
\* {success: true, extracted_text: T} ends with step = 5, isProcessing = false,
\* error = null and extractedData the record mapped from T.
C4_SuccessReachesResults ==
    [][\A i \in Slots, t \in Texts, resolves \in BOOLEAN :
         TextResponse(i, 200, Val([success |-> TRUE, extracted_text |-> t]),
                      resolves) =>
           /\ step' = 5
           /\ ~isProcessing'
           /\ error' = Null
           /\ extractedData' = Val(processExtractedText(t))]_vars

\* C5: in every state in which step is not 3 no camera stream track is live.
C5_CameraOnlyLiveAtCapture ==
    step # 3 => \A s \in DOMAIN streams : ~streams[s]

\* C6: when the camera request of startWebcam is denied, error is set, step
\* stays 3, and afterwards streamRef holds no live stream and no track is live.
C6_DenialLeavesNoStream ==
    [][GetUserMediaDeny =>
         /\ error' = Val(WebcamError)
         /\ step = 3 => step' = 3
         /\ \A s \in DOMAIN streams' : ~streams'[s]]_vars

\* C7: stopWebcam with no active session changes nothing and raises no fault,
\* and a second call in succession leaves the state the first call left.
C7_StopWebcamIdempotent ==
    LET once == StopWebcam(streamRef, streams)
        twice == StopWebcam(streamRef, once.streams)
    IN /\ ~once.threw
       /\ ~twice.threw
       /\ twice.streams = once.streams
       /\ (streamRef = Null \/ ~streams[streamRef[1]]) => once.streams = streams

\* stopWebcam has released the stream of streamRef and captureImage, which
\* calls it, can run again
C7_Witness ==
    /\ streamRef # Null
    /\ ~streams[streamRef[1]]
    /\ step = 3
    /\ videoRef # Null

NoActiveSession == streamRef = Null \/ ~streams[streamRef[1]]

\* C8: captureImage at step 3 with no active camera session is a no-op or
\* sets an error; it does not leave the wizard on Review with a selfie that
\* cannot be decoded.
C8_CaptureWithoutSession ==
    [][(CaptureImage /\ NoActiveSession) =>
         \/ UNCHANGED wizardVars
         \/ error' # Null /\ step' = 3
         \/ convertBase64ToFile(selfieImage', "selfie.jpg").ok]_vars

\* C9: a file read that ends in error or abort neither stores an image nor
\* advances step.
C9_FailedReadChangesNothing ==
    [][\A side \in Sides, file \in Files :
         OnLoadEnd(side, file, FALSE) => UNCHANGED <<step, frontID, backID>>]_vars

\* C10: at most one HTTP request is in flight: no submission starts while
\* isProcessing is true, and a submission issues its extraction request only
\* once its face-comparison response has been received.
C10_OneRequestInFlight ==
    /\ Cardinality({i \in Slots : Running(subs[i])}) <= 1
    /\ \A i \in Slots :
         /\ Running(subs[i]) => isProcessing
         /\ subs[i].pc = "awaitFace" => subs[i].sent = <<CompareFaces>>
         /\ subs[i].pc = "awaitText" =>
              /\ subs[i].sent = <<CompareFaces, ExtractText>>
              /\ subs[i].faceResult # Null

\* the extraction request of a submission is in flight
C10_Witness ==
    \E i \in Slots : subs[i].pc = "awaitText" /\ isProcessing

\* C11: a non-2xx response of /api/compare-faces or /api/extract-text fails the
\* submission whatever its body: error is set, no extraction request follows a
\* failed phase 1, and step does not become 5.
C11_NonSuccessStatusFails ==
    [][\A i \in Slots :
         subs'[i] # subs[i] =>
           /\ \A body \in FaceBodies :
                FaceResponse(i, 500, body) =>
                  /\ subs'[i].pc = "failed"
                  /\ error' # Null
                  /\ ~IssuesExtraction(i)
           /\ \A body \in TextBodies, resolves \in BOOLEAN :
                TextResponse(i, 500, body, resolves) =>
                  /\ subs'[i].pc = "failed"
                  /\ error' # Null
                  /\ step' = step]_vars

\* C12: once extractedData is non-null no later action changes it, and once
\* step is 5 it never changes again.
C12_ResultsAreFinal ==
    [][/\ extractedData # Null => extractedData' = extractedData
       /\ step = 5 => step' = 5]_vars

\* a call of processVerification starts in record i and reaches its first await
StartsCall(i) == ~Running(subs[i]) /\ Running(subs'[i])

\* C13: nothing is cached between submissions: every call, whatever the calls
\* before it did (a failure in phase 2 included), starts with no face result
\* and issues /api/compare-faces first, and /api/extract-text is issued only
\* on that call's own response with success and match.
C13_RetryStartsFromScratch ==
    [][\A i \in Slots :
         subs'[i] # subs[i] =>
           /\ StartsCall(i) =>
                /\ subs'[i].pc = "awaitFace"
                /\ subs'[i].sent = <<CompareFaces>>
                /\ subs'[i].faceResult = Null
                /\ isProcessing' /\ error' = Null
           /\ IssuesExtraction(i) =>
                /\ subs[i].sent = <<CompareFaces>>
                /\ subs[i].faceResult = Null
                /\ \E status \in Statuses :
                     FaceResponse(i, status, Val([success |-> TRUE, match |-> TRUE]))]_vars

\* a submission has failed in phase 2, after its match, and the retry that the
\* claim is about can be clicked with images that decode
C13_Witness ==
    /\ CanSubmit
    /\ error = Val(TextFailedMessage)
    /\ \E i \in Slots : subs[i].pc = "failed"
    /\ convertBase64ToFile(frontID, "front-id.jpg").ok
    /\ convertBase64ToFile(selfieImage, "selfie.jpg").ok

\* the files whose data URL is the stored value v (none when v is null)
FilesStoredAs(v) == {f \in Files : v = Val(DataUrlOf(f))}

\* C14: frontID and backID change only when a read of that side completes, to
\* exactly the value the read produced; the camera handlers and the submission
\* leave them unchanged, and the front file a submission sends is decoded from
\* the stored frontID to the bytes of the file that was read.
C14_StoredImageIsReadResult ==
    [][/\ frontID' # frontID =>
            \E file \in Files, ok \in BOOLEAN :
              /\ OnLoadEnd("front", file, ok)
              /\ frontID' = IF ok THEN Val(DataUrlOf(file)) ELSE Null
       /\ backID' # backID =>
            \E file \in Files, ok \in BOOLEAN :
              /\ OnLoadEnd("back", file, ok)
              /\ backID' = IF ok THEN Val(DataUrlOf(file)) ELSE Null
       /\ \A i \in Slots :
            (~Running(subs[i]) /\ Running(subs'[i])) =>
              \E f \in FilesStoredAs(frontID) :
                subs'[i].frontIDFile =
                  Val([name |-> "front-id.jpg", type |-> <<"image/png">>,
                       bytes |-> <<Base64Table[f]>>])]_vars

\* on Review, a submission is sending the front file decoded from what is shown
C14_Witness ==
    /\ step = 4
    /\ \E i \in Slots, f \in FilesStoredAs(frontID) :
         /\ Running(subs[i])
         /\ subs[i].frontIDFile[1].bytes = <<Base64Table[f]>>

\* C15: isProcessing is true only while a submission is in flight, and, every
\* fetch settling eventually, whenever it is true it becomes false again.
C15_ProcessingEnds ==
    /\ [](isProcessing => \E i \in Slots : Running(subs[i]))
    /\ isProcessing ~> ~isProcessing

\* a submission is in flight with the processing flag set
C15_Witness ==
    isProcessing /\ \E i \in Slots : subs[i].pc = "awaitFace"

\* C16: whenever step is 4, frontID, backID and selfieImage are all non-null.
C16_ReviewHasAllImages ==
    step = 4 => frontID # Null /\ backID # Null /\ selfieImage # Null

\* C17: step = 5 implies extractedData is non-null, and extractedData is only
\* set by a submission that completes phase 2 after a match in phase 1.
C17_ResultsHaveRecord ==
    /\ [](step = 5 => extractedData # Null)
    /\ [][extractedData' # extractedData =>
            /\ extractedData' # Null
            /\ \E i \in Slots :
                 /\ subs[i].pc = "awaitText"
                 /\ subs[i].faceResult = Val([success |-> TRUE, match |-> TRUE])
                 /\ subs'[i].pc = "done"]_vars

\* the Results view is shown with its record
C17_Witness ==
    step = 5 /\ extractedData # Null /\ \E i \in Slots : subs[i].pc = "done"

\* C18: every stream with a live track is the one streamRef holds, so at most
\* one stream is live and stopWebcam can release it.
C18_LiveStreamIsReferenced ==
    \A s \in DOMAIN streams : streams[s] => streamRef = Val(s)

\* C19: whenever step is 5 the error field is null.
C19_NoErrorOnResults ==
    step = 5 => error = Null
====
